---- MODULE Spec2Model ----
(***************************************************************************)
(* The multi-process crawl-and-download pipeline of safe_crawler.py:       *)
(* safe_download (the Orchestrator), SafeYandexCrawler.run (the Producer), *)
(* the shared Value is_active (the LivenessFlag), the Queue load_queue     *)
(* (the WorkQueue), and the ImageLoader / CountChecker processes it starts *)
(* (the Consumer and the CountChecker).                                    *)
(***************************************************************************)
EXTENDS Integers, Sequences, FiniteSets, TLC

\* ---------------------------------------------------------------- constants
\* main() passes links=[search_url]: one Producer.
NumLinks == 1
\* main() passes loaders_per_link=2.
loaders_per_link == 2
\* load_queue = Queue(10 * proc_num)
QueueFactor == 10
\* for i in range(5): the grace loop of the finally block
GraceChecks == 5
\* time.sleep(5) of the monitoring loop
PollInterval == 5

\* ------------------------------------------------------------------- bounds
\* the value of the max_errors argument
max_errors == 2
\* the positive value of the image_count argument (0 is the other one)
TargetCount == 1
\* the positive value of the timeout argument (0 is the other one)
TimeoutValue == 3
\* a timeout of exactly one polling interval, for the runs that study it
LongTimeout == 5
\* the largest width and height of an image, declared or decoded
MaxDim == 2
\* the minimum width and height configured in the GUI
MinSide == 2
\* WorkItems one Producer enqueues at most
MaxItems == 2
\* candidates the result page of one Producer holds
MaxCandidates == 2

proc_num == NumLinks
Producers == 0 .. (proc_num - 1)
Loaders == 1 .. (proc_num * loaders_per_link)
QueueCapacity == QueueFactor * proc_num
Hashes == {"h1", "h2"}
NoItem == [src |-> -1, seq |-> 0, cand |-> 0]
NoHash == "none"

VARIABLES
    is_active,            \* Value("i", True): the flag shared by every process
    should_exit,          \* the module global, in the Orchestrator's process
    child_exit,           \* the module global, in each Producer's process
    image_count, timeout, \* arguments of safe_download
    horizon,              \* the clock reading up to which a run without
                          \* timeout is followed
    prefill,              \* WorkItems enqueued, none of them taken, by the
                          \* point at which the run is picked up
    skip_files,           \* argument of safe_download: a set of stems
    initial_files,        \* names in image_dir when the run starts
    files,                \* image_dir: a set of [name, hash] entries
    load_queue,           \* the Queue between crawlers and loaders
    ppc, consecutive_errors, driver, cand, seq,   \* each Producer
    cpc, cur, chash, written,                     \* each Consumer
    kpc,                                          \* the CountChecker
    opc, grace_i, elapsed,                        \* the Orchestrator
    reported,             \* the counts its final report has given
    \* history, read by the properties only: streak counts the failed
    \* iterations since the last successful one, pend records how a Producer
    \* ended
    streak, pend, dequeues, processed, writes,
    \* download_images of yandex_crawler_gui.py, the single-process loop:
    gpc,                  \* where the worker thread stands
    count, width, height, \* the target count and the minimum size
    downloaded,           \* images saved by this run of the loop
    gui_errors,           \* its local consecutive_errors
    stop_event,           \* threading.Event, set by stop_download
    gclock,               \* time.time() - start_time
    shown,                \* the image the result page shows
    is_downloading,       \* self.is_downloading
    gdriver,              \* self.driver of the first worker: none, open, quit
    gpc2                  \* where the worker thread of a second download stands

pvars == <<ppc, consecutive_errors, driver, cand, seq, child_exit>>
cvars == <<cpc, cur, chash, written>>
ovars == <<opc, grace_i, elapsed, reported, should_exit>>
cfgvars == <<image_count, timeout, skip_files, initial_files, prefill,
             horizon>>
hvars == <<streak, pend, dequeues, processed, writes>>
appvars == <<is_downloading, gdriver, gpc2>>
gvars == <<gpc, count, width, height, downloaded, gui_errors, stop_event,
           gclock, shown, appvars>>
vars == <<is_active, files, load_queue, kpc, pvars, cvars, ovars, cfgvars, gvars, hvars>>

\* the WorkItems of a run picked up after fill items, and those of this run
ItemsOf(fill) == Producers \X (1 .. (fill + MaxItems + 1))
Items == DOMAIN dequeues

\* -------------------------------------------------------------- the storage
\* A store that names the file after the WorkItem instead of the content.
FileName_M(h, it) == <<(<<"i1", "i2", "i3", "i4">>)[it.seq], "png">>

\* <hash>.png: the name of a stored image is derived from its content hash.
FileName(h, it) == <<h, "png">>

\* file.split(".")[0]
Stem(name) == name[1]

Stems(dir) == {Stem(f.name) : f \in dir}

\* img.save(img_path, "PNG"): a file of the same name is replaced.
SaveFile(dir, name, h) ==
    {f \in dir : f.name # name} \cup {[name |-> name, hash |-> h]}

\* files of the directory that were not there when the run started
NewFiles == {f \in files : f.name \notin initial_files}

\* len(files) - len(skip_files), as safe_download counts
Downloaded == Cardinality(files) - Cardinality(skip_files)

\* ---------------------------------------------------------------- the queue
\* A put that never waits: a queue without bound.
CanPut_M(q) == TRUE

\* Queue.put blocks while the queue holds maxsize items.
CanPut(q) == Len(q) < QueueCapacity

\* A put that places the item before the waiting ones.
Put_M(q, it) == <<it>> \o q

\* Queue.put: the item goes behind those that wait.
Put(q, it) == Append(q, it)

\* A get that hands out the head and leaves it in the queue.
GetRest_M(q) == q

\* Queue.get removes the head and hands it to the one caller.
GetRest(q) == Tail(q)

\* ---------------------------------------------------------------- liveness
PAlive(p) == ppc[p] \notin {"done", "crashed", "killed"}
CAlive(c) == cpc[c] \notin {"exited", "killed"}
KAlive == kpc \notin {"exited", "killed"}
\* all(...) in place of any(...): true only while every process is alive.
AnyAlive_M ==
    /\ \A p \in Producers : PAlive(p)
    /\ \A c \in Loaders : CAlive(c)
    /\ KAlive

\* any(p.is_alive() for p in processes)
AnyAlive ==
    \/ \E p \in Producers : PAlive(p)
    \/ \E c \in Loaders : CAlive(c)
    \/ KAlive

\* The state when safe_download has started its processes, for a target count
\* and a timeout taken from the given sets; or, for fill > 0, the state of
\* such a run a little later, when its Producer (main() starts one) has come
\* through fill successful iterations and no Consumer has taken an item yet.
\* The output directory holds one of the given sets of files and skip_files
\* is one of the given sets of stems.  A run without timeout is followed
\* until its clock reads far.
InitCall(counts, timeouts, fill, dirs, skips, far) ==
    /\ is_active = TRUE
    /\ should_exit = FALSE
    /\ child_exit = [p \in Producers |-> FALSE]
    /\ image_count \in counts
    /\ timeout \in timeouts
    /\ initial_files \in dirs
    /\ skip_files \in skips
    /\ files = {[name |-> n, hash |-> Stem(n)] : n \in initial_files}
    /\ prefill = fill
    /\ horizon = far
    /\ load_queue = [k \in 1 .. fill |-> [src |-> 0, seq |-> k, cand |-> k]]
    /\ ppc = [p \in Producers |-> IF fill = 0 THEN "get" ELSE "check"]
    /\ consecutive_errors = [p \in Producers |-> 0]
    /\ driver = [p \in Producers |-> "open"]
    /\ cand = [p \in Producers |-> fill + 1]
    /\ seq = [p \in Producers |-> fill]
    /\ cpc = [c \in Loaders |-> "get"]
    /\ cur = [c \in Loaders |-> NoItem]
    /\ chash = [c \in Loaders |-> NoHash]
    /\ written = [c \in Loaders |-> {}]
    /\ kpc = "run"
    /\ opc = "monitor"
    /\ grace_i = 0
    /\ elapsed = 0
    /\ reported = <<>>
    /\ streak = [p \in Producers |-> 0]
    /\ pend = [p \in Producers |-> "none"]
    /\ dequeues = [i \in ItemsOf(fill) |-> 0]
    /\ processed = {}
    /\ writes = [h \in Hashes |-> 0]

\* safe_download as main() calls it: skip_files holds the stems of the files
\* of the output directory.
InitRun(counts, timeouts, fill, dirs) ==
    \E d \in dirs :
        InitCall(counts, timeouts, fill, {d},
                 {Stems({[name |-> n, hash |-> Stem(n)] : n \in d})}, 0)

\* an image as the result page shows it: the size the page declares, the
\* size and the content hash of what its link delivers, and whether the link
\* delivers an image at all
Dims == 1 .. MaxDim
Candidates ==
    [dw : Dims, dh : Dims, w : Dims, h : Dims, hash : Hashes, ok : BOOLEAN]
NoCandidate == [dw |-> 0, dh |-> 0, w |-> 0, h |-> 0, hash |-> NoHash, ok |-> FALSE]

\* The GUI loop is not running.
GuiIdle ==
    /\ gpc = "idle"
    /\ count = 0 /\ width = 0 /\ height = 0
    /\ downloaded = 0 /\ gui_errors = 0
    /\ stop_event = FALSE
    /\ gclock = 0
    /\ shown = NoCandidate
    /\ is_downloading = FALSE
    /\ gdriver = "none"
    /\ gpc2 = "idle"

\* an output directory that holds one image stored by an earlier run, and
\* one that holds every image the search can deliver
OneImage == {<<"h1", "png">>}
AllImages == {<<h, "png">> : h \in Hashes}

Init == InitRun({0, TargetCount}, {0, TimeoutValue}, 0, {OneImage}) /\ GuiIdle

\* ------------------------------------------------------------- the Producer
\* The comparison off by one: > in place of >=.
BudgetExhausted_M(n) == n > max_errors

\* if self.consecutive_errors >= self.max_errors
BudgetExhausted(n) == n >= max_errors

\* A success path that leaves the counter as it is.
ResetCounter_M(n) == n

\* self.consecutive_errors = 0, after an iteration without exception
ResetCounter(n) == 0

\* A Producer that writes True where it should write False.
ProducerFlagWrite_M == TRUE

\* The value a Producer writes to is_active when it gives up.
ProducerFlagWrite == FALSE

\* except Exception of the loop: count the failure, give up at max_errors,
\* otherwise sleep 2 and retry.  The counter and the position in the result
\* page live in the process and are gone (0) once it has ended.
PFail(p) ==
    LET n == consecutive_errors[p] + 1 IN
    /\ streak' = [streak EXCEPT ![p] = @ + 1]
    /\ IF BudgetExhausted(n)
       THEN /\ is_active' = ProducerFlagWrite
            /\ child_exit' = [child_exit EXCEPT ![p] = TRUE]
            /\ driver' = [driver EXCEPT ![p] = "closed"]
            /\ ppc' = [ppc EXCEPT ![p] = "done"]
            /\ pend' = [pend EXCEPT ![p] = "budget"]
            /\ consecutive_errors' = [consecutive_errors EXCEPT ![p] = 0]
            /\ cand' = [cand EXCEPT ![p] = 0]
       ELSE /\ ppc' = [ppc EXCEPT ![p] = "backoff"]
            /\ consecutive_errors' = [consecutive_errors EXCEPT ![p] = n]
            /\ UNCHANGED <<is_active, child_exit, driver, pend, cand>>

\* crawler = SafeYandexCrawler(...); self.driver.get(self.start_link): outside
\* every try block, so an exception ends the process where it stands.
PGet(p) ==
    /\ ppc[p] = "get"
    /\ \E ok \in BOOLEAN :
          IF ok
          THEN /\ ppc' = [ppc EXCEPT ![p] = "first"]
               /\ UNCHANGED <<pend, cand>>
          ELSE /\ ppc' = [ppc EXCEPT ![p] = "crashed"]
               /\ pend' = [pend EXCEPT ![p] = "crash"]
               /\ cand' = [cand EXCEPT ![p] = 0]
    /\ UNCHANGED <<is_active, files, load_queue, kpc, consecutive_errors, driver,
                   seq, child_exit, cvars, ovars, cfgvars, gvars, streak, dequeues, processed, writes>>

\* The except branch without its return: the Producer falls into the loop.
PFirst_M(p) ==
    /\ ppc[p] = "first"
    /\ \E ok \in BOOLEAN :
          IF ok
          THEN /\ ppc' = [ppc EXCEPT ![p] = "check"]
               /\ UNCHANGED <<is_active, child_exit, driver, pend, cand>>
          ELSE /\ is_active' = ProducerFlagWrite
               /\ child_exit' = [child_exit EXCEPT ![p] = TRUE]
               /\ driver' = [driver EXCEPT ![p] = "closed"]
               /\ ppc' = [ppc EXCEPT ![p] = "check"]
               /\ UNCHANGED <<pend, cand>>
    /\ UNCHANGED <<files, load_queue, kpc, consecutive_errors, seq, cvars,
                   ovars, cfgvars, gvars, streak, dequeues, processed,
                   writes>>

\* try: open the first preview; except Exception: lower the flag, close, return
PFirst(p) ==
    /\ ppc[p] = "first"
    /\ \E ok \in BOOLEAN :
          IF ok
          THEN /\ ppc' = [ppc EXCEPT ![p] = "check"]
               /\ UNCHANGED <<is_active, child_exit, driver, pend, cand>>
          ELSE /\ is_active' = ProducerFlagWrite
               /\ child_exit' = [child_exit EXCEPT ![p] = TRUE]
               /\ driver' = [driver EXCEPT ![p] = "closed"]
               /\ ppc' = [ppc EXCEPT ![p] = "done"]
               /\ pend' = [pend EXCEPT ![p] = "fatal"]
               /\ cand' = [cand EXCEPT ![p] = 0]
    /\ UNCHANGED <<files, load_queue, kpc, consecutive_errors, seq, cvars,
                   ovars, cfgvars, gvars, streak, dequeues, processed,
                   writes>>

\* if not self.is_active.value or should_exit: close and return
PCheck(p) ==
    /\ ppc[p] = "check"
    /\ IF ~is_active \/ child_exit[p]
       THEN /\ driver' = [driver EXCEPT ![p] = "closed"]
            /\ ppc' = [ppc EXCEPT ![p] = "done"]
            /\ pend' = [pend EXCEPT ![p] = "flag"]
            /\ streak' = [streak EXCEPT ![p] = 0]
            /\ consecutive_errors' = [consecutive_errors EXCEPT ![p] = 0]
            /\ cand' = [cand EXCEPT ![p] = 0]
       ELSE /\ ppc' = [ppc EXCEPT ![p] = "extract"]
            /\ UNCHANGED <<driver, pend, streak,
                           consecutive_errors, cand>>
    /\ UNCHANGED <<is_active, files, load_queue, kpc, seq, child_exit, cvars,
                   ovars, cfgvars, gvars, dequeues, processed, writes>>

\* __get_image_link, first half: read the candidate's link and declared size
PExtract(p) ==
    /\ ppc[p] = "extract"
    /\ \/ /\ seq[p] < prefill + MaxItems
          /\ ppc' = [ppc EXCEPT ![p] = "put"]
          /\ UNCHANGED <<is_active, consecutive_errors, driver, child_exit,
                         streak, pend, cand>>
       \/ PFail(p)
    /\ UNCHANGED <<files, load_queue, kpc, seq, cvars, ovars, cfgvars, gvars,
                   dequeues, processed, writes>>

\* __get_image_link, second half: load_queue.put(...), blocking while full
PPut(p) ==
    /\ ppc[p] = "put"
    /\ CanPut(load_queue)
    /\ seq' = [seq EXCEPT ![p] = @ + 1]
    /\ load_queue' = Put(load_queue, [src |-> p, seq |-> seq[p] + 1, cand |-> cand[p]])
    /\ ppc' = [ppc EXCEPT ![p] = "advance"]
    /\ UNCHANGED <<is_active, files, kpc, consecutive_errors, driver, cand,
                   child_exit, cvars, ovars, cfgvars, gvars, hvars>>

\* __open_next_preview, then self.consecutive_errors = 0; the last candidate
\* has no next one.
PAdvance(p) ==
    /\ ppc[p] = "advance"
    /\ \/ /\ cand[p] < prefill + MaxCandidates
          /\ cand' = [cand EXCEPT ![p] = @ + 1]
          /\ consecutive_errors' =
                [consecutive_errors EXCEPT ![p] = ResetCounter(@)]
          /\ ppc' = [ppc EXCEPT ![p] = "check"]
          /\ streak' = [streak EXCEPT ![p] = 0]
          /\ UNCHANGED <<is_active, driver, child_exit, pend>>
       \/ PFail(p)
    /\ UNCHANGED <<files, load_queue, kpc, seq, cvars, ovars, cfgvars, gvars,
                   dequeues, processed, writes>>

\* A retry that goes straight to the extraction, past the head of the loop.
PWake_M(p) ==
    /\ ppc[p] = "backoff"
    /\ ppc' = [ppc EXCEPT ![p] = "extract"]
    /\ UNCHANGED <<is_active, files, load_queue, kpc, consecutive_errors, driver,
                   cand, seq, child_exit, cvars, ovars, cfgvars, gvars, hvars>>

\* time.sleep(2) is over: back to the head of the loop
PWake(p) ==
    /\ ppc[p] = "backoff"
    /\ ppc' = [ppc EXCEPT ![p] = "check"]
    /\ UNCHANGED <<is_active, files, load_queue, kpc, consecutive_errors, driver,
                   cand, seq, child_exit, cvars, ovars, cfgvars, gvars, hvars>>

Producer(p) ==
    \/ PGet(p) \/ PFirst(p) \/ PCheck(p) \/ PExtract(p)
    \/ PPut(p) \/ PAdvance(p) \/ PWake(p)

\* ------------------------------------------------------------- the Consumer
\* Consumer, step 1: take the head of the queue; leave once the flag is
\* lowered and the queue is empty; wait while it is empty and the flag raised.
\* The set of written hashes lives in the process and is gone when it ends.
\* The Consumers are followed through the first MaxItems items.
CGet(c) ==
    /\ cpc[c] = "get"
    /\ IF load_queue # <<>>
       THEN /\ Head(load_queue).seq <= MaxItems
            /\ cur' = [cur EXCEPT ![c] = Head(load_queue)]
            /\ load_queue' = GetRest(load_queue)
            /\ dequeues' = [dequeues EXCEPT
                  ![<<Head(load_queue).src, Head(load_queue).seq>>] = @ + 1]
            /\ cpc' = [cpc EXCEPT ![c] = "fetch"]
            /\ UNCHANGED written
       ELSE /\ ~is_active
            /\ cpc' = [cpc EXCEPT ![c] = "exited"]
            /\ written' = [written EXCEPT ![c] = {}]
            /\ UNCHANGED <<cur, load_queue, dequeues>>
    /\ UNCHANGED <<is_active, files, kpc, pvars, chash, ovars, cfgvars, gvars,
                   streak, pend, processed, writes>>

\* Consumer, step 5: a hash of the SkipSet or written by this Consumer before
Duplicate(c, h) == h \in skip_files \/ h \in written[c]

\* Consumer, steps 2 to 5: fetch, decode, size filter, hash, duplicate check.
\* A failed fetch or decode, a small image and a duplicate end the item.
CFetch(c) ==
    /\ cpc[c] = "fetch"
    /\ \E r \in {"fail", "small"} \cup Hashes :
          IF r \in Hashes /\ ~Duplicate(c, r)
          THEN /\ chash' = [chash EXCEPT ![c] = r]
               /\ cpc' = [cpc EXCEPT ![c] = "write"]
               /\ UNCHANGED <<cur, processed>>
          ELSE /\ processed' = processed \cup {<<cur[c].src, cur[c].seq>>}
               /\ cur' = [cur EXCEPT ![c] = NoItem]
               /\ cpc' = [cpc EXCEPT ![c] = "get"]
               /\ UNCHANGED chash
    /\ UNCHANGED <<is_active, files, load_queue, kpc, pvars, written, ovars,
                   cfgvars, gvars, streak, pend, dequeues, writes>>

\* A Consumer that enters the hash it wrote into the SkipSet.
CWrite_M(c) ==
    /\ cpc[c] = "write"
    /\ files' = SaveFile(files, FileName(chash[c], cur[c]), chash[c])
    /\ skip_files' = skip_files \cup {chash[c]}
    /\ written' = [written EXCEPT ![c] = @ \cup {chash[c]}]
    /\ writes' = [writes EXCEPT ![chash[c]] = @ + 1]
    /\ processed' = processed \cup {<<cur[c].src, cur[c].seq>>}
    /\ cur' = [cur EXCEPT ![c] = NoItem]
    /\ chash' = [chash EXCEPT ![c] = NoHash]
    /\ cpc' = [cpc EXCEPT ![c] = "get"]
    /\ UNCHANGED <<is_active, load_queue, kpc, pvars, ovars,
                   image_count, timeout, initial_files, prefill, horizon,
                   gvars,
                   streak, pend, dequeues>>

\* Consumer, steps 6 and 7: store the image under the name of its hash and
\* remember the hash in this process.
CWrite(c) ==
    /\ cpc[c] = "write"
    /\ files' = SaveFile(files, FileName(chash[c], cur[c]), chash[c])
    /\ written' = [written EXCEPT ![c] = @ \cup {chash[c]}]
    /\ writes' = [writes EXCEPT ![chash[c]] = @ + 1]
    /\ processed' = processed \cup {<<cur[c].src, cur[c].seq>>}
    /\ cur' = [cur EXCEPT ![c] = NoItem]
    /\ chash' = [chash EXCEPT ![c] = NoHash]
    /\ cpc' = [cpc EXCEPT ![c] = "get"]
    /\ UNCHANGED <<is_active, load_queue, kpc, pvars, ovars, cfgvars, gvars, streak,
                   pend, dequeues>>

Consumer(c) == CGet(c) \/ CFetch(c) \/ CWrite(c)

\* --------------------------------------------------------- the CountChecker
\* files of the directory beyond those present when the run started
RunCount == Cardinality(files) - Cardinality(initial_files)

\* A count that does not subtract what the directory held at the start.
TargetReached_M == image_count > 0 /\ Cardinality(files) >= image_count

\* A test that forgets that a target of 0 means no target.
TargetReached_Z == RunCount >= image_count

\* a positive target that the count has reached
TargetReached == image_count > 0 /\ RunCount >= image_count

\* One poll: leave when the flag is lowered; lower it and leave when the
\* target is reached; otherwise sleep until the next poll.
CheckerPoll ==
    /\ kpc = "run"
    /\ IF ~is_active
       THEN /\ kpc' = "exited"
            /\ UNCHANGED is_active
       ELSE /\ TargetReached
            /\ is_active' = FALSE
            /\ kpc' = "exited"
    /\ UNCHANGED <<files, load_queue, pvars, cvars, ovars, cfgvars, gvars, hvars>>

\* ---------------------------------------------------------- the Orchestrator
\* A handler that sets should_exit and leaves the flag as it is.
Interrupt_M ==
    /\ opc # "returned"
    /\ ~should_exit
    /\ should_exit' = TRUE
    /\ UNCHANGED <<is_active, files, load_queue, kpc, pvars, cvars, opc, grace_i,
                   elapsed, reported, cfgvars, gvars, hvars>>

\* signal_handler, installed for SIGINT before the processes are started
Interrupt ==
    /\ opc # "returned"
    /\ is_active \/ ~should_exit
    /\ is_active' = FALSE
    /\ should_exit' = TRUE
    /\ UNCHANGED <<files, load_queue, kpc, pvars, cvars, opc, grace_i, elapsed,
                   reported, cfgvars, gvars, hvars>>

\* A test that forgets that a timeout of 0 means no timeout.
TimedOut_Z == elapsed > timeout

\* A test that fires at the timeout itself: >= in place of >.
TimedOut_M == timeout > 0 /\ elapsed >= timeout

\* timeout > 0 and time.time() - start_time > timeout
TimedOut == timeout > 0 /\ elapsed > timeout

\* A loop that looks at should_exit only and not at the flag.
StopRequested_M == should_exit

\* if should_exit or not is_active.value
StopRequested == should_exit \/ ~is_active

\* A finally block and breaks that leave the flag as they find it.
OrchestratorFlagWrite_M == is_active

\* is_active.value = False: before each break and first in the finally block
OrchestratorFlagWrite == FALSE

\* One pass of while any(p.is_alive() ...): the loop ends when no process is
\* alive, when the flag or should_exit asks for it, or on the timeout, and the
\* finally block then lowers the flag; otherwise the pass ends in
\* time.sleep(5), after which the clock reads five units more.  The clock is
\* not followed beyond the second reading above the timeout nor, without
\* timeout, beyond the horizon of the run.
OMonitor ==
    /\ opc = "monitor"
    /\ IF ~AnyAlive \/ StopRequested \/ TimedOut
       THEN /\ is_active' = OrchestratorFlagWrite
            /\ grace_i' = 0
            /\ opc' = "grace"
            /\ UNCHANGED elapsed
       ELSE /\ elapsed' =
                  IF \/ timeout = 0 /\ elapsed >= horizon
                     \/ timeout > 0 /\ elapsed > timeout + PollInterval
                  THEN elapsed ELSE elapsed + PollInterval
            /\ UNCHANGED <<is_active, grace_i, opc>>
    /\ UNCHANGED <<files, load_queue, kpc, pvars, cvars, reported, should_exit,
                   cfgvars, gvars, hvars>>

\* The test of the grace loop inverted: leave while some process is alive.
GraceOver_M == grace_i >= GraceChecks \/ AnyAlive

\* for i in range(5): leave when no process is alive, else sleep(1)
GraceOver == grace_i >= GraceChecks \/ ~AnyAlive

OGrace ==
    /\ opc = "grace"
    /\ IF GraceOver
       THEN /\ opc' = "force"
            /\ UNCHANGED grace_i
       ELSE /\ grace_i' = grace_i + 1
            /\ UNCHANGED opc
    /\ UNCHANGED <<is_active, files, load_queue, kpc, pvars, cvars, elapsed,
                   reported, should_exit, cfgvars, gvars, hvars>>

\* A forced step that terminates nothing.
Terminate_M(alive, pc) == pc

\* A forced step that marks every child terminated, alive or not.
Terminate_K(alive, pc) == "killed"

\* if p.is_alive(): p.terminate()
Terminate(alive, pc) == IF alive THEN "killed" ELSE pc

\* for p in processes: if p.is_alive(): p.terminate().  What a process kept
\* in its own memory is gone with it; the item a Consumer held stays
\* recorded in cur, as the item that was cut off.
OForce ==
    /\ opc = "force"
    /\ ppc' = [p \in Producers |-> Terminate(PAlive(p), ppc[p])]
    /\ cpc' = [c \in Loaders |-> Terminate(CAlive(c), cpc[c])]
    /\ kpc' = Terminate(KAlive, kpc)
    /\ opc' = "report"
    /\ streak' = [p \in Producers |-> IF PAlive(p) THEN 0 ELSE streak[p]]
    /\ consecutive_errors' = [p \in Producers |-> 0]
    /\ cand' = [p \in Producers |-> 0]
    /\ written' = [c \in Loaders |-> {}]
    /\ UNCHANGED <<is_active, files, load_queue, driver, seq, child_exit, cur,
                   chash, grace_i, elapsed, reported, should_exit, cfgvars, gvars,
                   pend, dequeues, processed, writes>>

\* A return without the final report.
OReport_M ==
    /\ opc = "report"
    /\ opc' = "returned"
    /\ UNCHANGED <<is_active, files, load_queue, kpc, pvars, cvars, grace_i,
                   elapsed, reported, should_exit, cfgvars, gvars, hvars>>

\* downloaded = len(files) - len(skip_files); "Download complete."
OReport ==
    /\ opc = "report"
    /\ reported' = Append(reported, Downloaded)
    /\ opc' = "returned"
    /\ UNCHANGED <<is_active, files, load_queue, kpc, pvars, cvars, grace_i,
                   elapsed, should_exit, cfgvars, gvars, hvars>>

Orchestrator ==
    OMonitor \/ OGrace \/ OForce \/ OReport

Next ==
    \/ \E p \in Producers : Producer(p)
    \/ \E c \in Loaders : Consumer(c)
    \/ CheckerPoll
    \/ Orchestrator
    \/ Interrupt

Spec == Init /\ [][Next]_vars

\* A run with a positive target count and no timeout, so that only the
\* target (or a failure or a signal) stops it, in which the scheduler starves
\* neither the CountChecker nor the Orchestrator.
TargetInit == Init /\ image_count = TargetCount /\ timeout = 0

TargetFairSpec ==
    /\ TargetInit /\ [][Next]_vars
    /\ WF_vars(CheckerPoll) /\ WF_vars(Orchestrator)

\* A run without target count and with a timeout, below one polling interval
\* or exactly one.
TimeoutInit ==
    InitRun({0}, {TimeoutValue, LongTimeout}, 0, {OneImage}) /\ GuiIdle

TimeoutSpec == TimeoutInit /\ [][Next]_vars

\* A run without target count and timeout, from its start or picked up when
\* the queue lacks one item to be full; the latter in a directory that holds
\* every image already, so that the Consumers reject what they take.
QueueInit ==
    /\ \/ InitRun({0}, {0}, 0, {OneImage})
       \/ InitRun({0}, {0}, QueueCapacity - 1, {AllImages})
    /\ GuiIdle

QueueSpec == QueueInit /\ [][Next]_vars

\* Such a run in which the scheduler does not starve the Orchestrator; no
\* child process is promised a step.
ShutdownFairSpec == QueueSpec /\ WF_vars(Orchestrator)

\* A call of safe_download with a target and no timeout on a directory that
\* holds one image, with skip_files left at its default (the empty set),
\* built as main() builds it, or naming a stem more than the directory holds.
CallInit ==
    /\ InitCall({TargetCount}, {0}, 0, {OneImage},
                {{}, {"h1"}, {"h1", "h2"}}, 0)
    /\ GuiIdle

CallSpec == CallInit /\ [][Next]_vars

\* A run without target count and timeout, followed through two polls of
\* the monitoring loop.
Horizon == 2 * PollInterval

UnlimitedInit ==
    /\ InitCall({0}, {0}, 0, {OneImage}, {{"h1"}}, Horizon)
    /\ GuiIdle

UnlimitedSpec == UnlimitedInit /\ [][Next]_vars

\* ------------------------------------------------ the single-process loop
\* download_images, from "Start downloading images" on: the driver is set up,
\* the first image is open, the output directory holds one image, stored by
\* an earlier run or put there under another extension.  The processes of
\* safe_download are not started: their variables keep the values of a run
\* not yet begun.  No timeout is configured.
GuiInit ==
    /\ InitRun({0}, {0}, 0, {OneImage, {<<"h1", "jpg">>}})
    /\ gpc = "loop"
    /\ count \in {0, TargetCount}
    /\ width = MinSide /\ height = MinSide
    /\ downloaded = 0 /\ gui_errors = 0
    /\ stop_event = FALSE
    /\ gclock = 0
    /\ shown \in Candidates
    /\ is_downloading = TRUE
    /\ gdriver = "open"
    /\ gpc2 = "idle"

\* initial_files.update([file.split(".")[0] for file in files])
GuiInitialFiles == {Stem(n) : n \in initial_files}

\* img_path.exists()
PathExists(dir, name) == \E f \in dir : f.name = name

\* if width_found >= width and height_found >= height
DeclaredFits(c) == c.dw >= width /\ c.dh >= height

\* A size test that asks for one side only.
DecodedFits_M(c) == c.w >= width \/ c.h >= height

\* if img_width >= width and img_height >= height
DecodedFits(c) == c.w >= width /\ c.h >= height

\* A test that looks at the directory only and not at initial_files.
NotSkipped_M(c) == TRUE

\* hash_name not in initial_files
NotSkipped(c) == c.hash \notin GuiInitialFiles

\* The image is fetched only if its declared size fits; it is saved if the
\* response is good and decodes, the decoded size fits, and its hash is
\* neither in initial_files nor the name of a file in the directory.
GuiAdmitted(c) ==
    /\ DeclaredFits(c)
    /\ c.ok
    /\ DecodedFits(c)
    /\ NotSkipped(c)
    /\ ~PathExists(files, FileName(c.hash, NoItem))

\* The clock after a sleep of d; it is read only when timeout > 0 and is not
\* followed beyond the first reading above the timeout.
GuiSleep(d) ==
    IF timeout = 0 \/ gclock > timeout THEN gclock ELSE gclock + d

\* if consecutive_errors >= max_errors
GuiBudgetExhausted(n) == n >= max_errors

\* except Exception of the loop: count the failure, stop at max_errors,
\* otherwise sleep 2 and go to the head of the loop.
GFail ==
    LET n == gui_errors + 1 IN
    /\ gui_errors' = n
    /\ IF GuiBudgetExhausted(n)
       THEN gpc' = "ended" /\ UNCHANGED gclock
       ELSE gpc' = "loop" /\ gclock' = GuiSleep(2)

\* A test that lets the loop go on at the target: > in place of >=.
GuiTargetReached_M == count > 0 /\ downloaded > count

\* if count > 0 and downloaded >= count
GuiTargetReached == count > 0 /\ downloaded >= count

\* the head of the loop: the stop event, the timeout, the target count
GLoop ==
    /\ gpc = "loop"
    /\ IF \/ stop_event
          \/ timeout > 0 /\ gclock > timeout
          \/ GuiTargetReached
       THEN gpc' = "ended"
       ELSE gpc' = "extract"
    /\ UNCHANGED <<is_active, files, load_queue, kpc, pvars, cvars, ovars,
                   cfgvars, hvars, appvars, count, width, height, downloaded,
                   gui_errors, stop_event, gclock, shown>>

\* the declared size and the link of the image shown, or an exception
GExtract ==
    /\ gpc = "extract"
    /\ \/ gpc' = "download" /\ UNCHANGED <<gui_errors, gclock>>
       \/ GFail
    /\ UNCHANGED <<is_active, files, load_queue, kpc, pvars, cvars, ovars,
                   cfgvars, hvars, appvars, count, width, height, downloaded,
                   stop_event, shown>>

\* A download whose exception reaches the except branch of the loop.
GDownload_M ==
    /\ gpc = "download"
    /\ IF DeclaredFits(shown) /\ ~shown.ok
       THEN GFail /\ UNCHANGED <<files, downloaded>>
       ELSE /\ IF GuiAdmitted(shown)
               THEN /\ files' = SaveFile(files, FileName(shown.hash, NoItem),
                                         shown.hash)
                    /\ downloaded' = downloaded + 1
                    /\ gui_errors' = 0
               ELSE UNCHANGED <<files, downloaded, gui_errors>>
            /\ gpc' = "next"
            /\ UNCHANGED gclock
    /\ UNCHANGED <<is_active, load_queue, kpc, pvars, cvars, ovars, cfgvars,
                   hvars, appvars, count, width, height, stop_event, shown>>

\* the download of the image shown: a save counts the image and clears the
\* error counter; everything else, an exception of the download included,
\* leaves both as they are
GDownload ==
    /\ gpc = "download"
    /\ IF GuiAdmitted(shown)
       THEN /\ files' = SaveFile(files, FileName(shown.hash, NoItem), shown.hash)
            /\ downloaded' = downloaded + 1
            /\ gui_errors' = 0
       ELSE UNCHANGED <<files, downloaded, gui_errors>>
    /\ gpc' = "next"
    /\ UNCHANGED <<is_active, load_queue, kpc, pvars, cvars, ovars, cfgvars,
                   hvars, appvars, count, width, height, stop_event, gclock, shown>>

\* the click on the next button and the sleep of 1, or an exception; the page
\* then shows another image
GAdvance ==
    /\ gpc = "next"
    /\ \/ /\ gpc' = "loop"
          /\ gclock' = GuiSleep(1)
          /\ shown' \in Candidates
          /\ UNCHANGED gui_errors
       \/ GFail /\ UNCHANGED shown
    /\ UNCHANGED <<is_active, files, load_queue, kpc, pvars, cvars, ovars,
                   cfgvars, hvars, appvars, count, width, height, downloaded,
                   stop_event>>

\* stop_download, up to its join: if not self.is_downloading: return;
\* self.stop_event.set().  The main thread then waits in join(timeout=5.0);
\* until it returns it handles no other event.
GStop ==
    /\ is_downloading
    /\ ~stop_event
    /\ stop_event' = TRUE
    /\ UNCHANGED <<is_active, files, load_queue, kpc, pvars, cvars, ovars,
                   cfgvars, hvars, appvars, gpc, count, width, height,
                   downloaded, gui_errors, gclock, shown>>

\* stop_download, after its join: the worker has ended or five seconds have
\* passed, whichever comes first; self.is_downloading = False
GStopReturn ==
    /\ stop_event
    /\ is_downloading
    /\ is_downloading' = FALSE
    /\ UNCHANGED <<is_active, files, load_queue, kpc, pvars, cvars, ovars,
                   cfgvars, hvars, gdriver, gpc2, gpc, count, width, height,
                   downloaded, gui_errors, stop_event, gclock, shown>>

GuiNext ==
    GLoop \/ GExtract \/ GDownload \/ GAdvance \/ GStop \/ GStopReturn

GuiSpec == GuiInit /\ [][GuiNext]_vars

\* ------------------------------------------------------ the application
\* start_download: refused while is_downloading; else is_downloading = True,
\* stop_event.clear(), and a new thread runs download_images.  The
\* application is followed through two downloads: the thread of the first
\* in full, that of the second through its loop only.
GStart ==
    /\ ~is_downloading
    /\ gpc = "idle" \/ gpc2 = "idle"
    /\ is_downloading' = TRUE
    /\ stop_event' = FALSE
    /\ IF gpc = "idle"
       THEN gpc' = "setup" /\ UNCHANGED gpc2
       ELSE gpc2' = "loop" /\ UNCHANGED gpc
    /\ UNCHANGED <<is_active, files, load_queue, kpc, pvars, cvars, ovars,
                   cfgvars, hvars, gdriver, count, width, height, downloaded,
                   gui_errors, gclock, shown>>

\* download_images up to self.driver = webdriver.Chrome(...): an exception
\* (the parameters, the installation of the driver, the start of Chrome)
\* leads to the outer except and finally.
GCreate ==
    /\ gpc = "setup"
    /\ \/ gdriver' = "open" /\ gpc' = "navigate"
       \/ gpc' = "finish" /\ UNCHANGED gdriver
    /\ UNCHANGED <<is_active, files, load_queue, kpc, pvars, cvars, ovars,
                   cfgvars, hvars, is_downloading, gpc2, count, width, height,
                   downloaded, gui_errors, stop_event, gclock, shown>>

\* execute_script, self.driver.get(search_url), the output directory and
\* initial_files: inside the outer try only, so an exception leads to the
\* outer except and finally, past the finally that quits the driver.
GNavigate ==
    /\ gpc = "navigate"
    /\ gpc' \in {"first", "finish"}
    /\ UNCHANGED <<is_active, files, load_queue, kpc, pvars, cvars, ovars,
                   cfgvars, hvars, appvars, count, width, height, downloaded,
                   gui_errors, stop_event, gclock, shown>>

\* the check for a CAPTCHA and the opening of the first image, then
\* start_time, consecutive_errors = 0, downloaded = 0; an exception of the
\* inner try leads to its except and finally.
GFirst ==
    /\ gpc = "first"
    /\ gpc' \in {"loop", "ended"}
    /\ downloaded' = 0 /\ gui_errors' = 0 /\ gclock' = 0
    /\ UNCHANGED <<is_active, files, load_queue, kpc, pvars, cvars, ovars,
                   cfgvars, hvars, appvars, count, width, height, stop_event,
                   shown>>

\* finally of the inner try: if self.driver: self.driver.quit()
GQuit ==
    /\ gpc = "ended"
    /\ gdriver' = IF gdriver = "open" THEN "quit" ELSE gdriver
    /\ gpc' = "finish"
    /\ UNCHANGED <<is_active, files, load_queue, kpc, pvars, cvars, ovars,
                   cfgvars, hvars, is_downloading, gpc2, count, width, height,
                   downloaded, gui_errors, stop_event, gclock, shown>>

\* finally of the outer try: self.is_downloading = False
GFinish ==
    /\ gpc = "finish"
    /\ is_downloading' = FALSE
    /\ gpc' = "returned"
    /\ UNCHANGED <<is_active, files, load_queue, kpc, pvars, cvars, ovars,
                   cfgvars, hvars, gdriver, gpc2, count, width, height,
                   downloaded, gui_errors, stop_event, gclock, shown>>

\* the thread of the second download at the head of its loop: it leaves on
\* the stop event (or for another reason) and sets is_downloading = False
GLoop2 ==
    /\ gpc2 = "loop"
    /\ \/ ~stop_event /\ gpc2' = "body" /\ UNCHANGED is_downloading
       \/ gpc2' = "returned" /\ is_downloading' = FALSE
    /\ UNCHANGED <<is_active, files, load_queue, kpc, pvars, cvars, ovars,
                   cfgvars, hvars, gdriver, gpc, count, width, height,
                   downloaded, gui_errors, stop_event, gclock, shown>>

\* one pass of the loop of the second download
GBody2 ==
    /\ gpc2 = "body"
    /\ gpc2' = "loop"
    /\ UNCHANGED <<is_active, files, load_queue, kpc, pvars, cvars, ovars,
                   cfgvars, hvars, is_downloading, gdriver, gpc, count, width,
                   height, downloaded, gui_errors, stop_event, gclock, shown>>

\* The window after construction: nothing is downloading; the fields hold
\* a target count and a minimum size; the output directory holds one image.
AppInit ==
    /\ InitRun({0}, {0}, 0, {OneImage})
    /\ gpc = "idle"
    /\ count \in {0, TargetCount}
    /\ width = MinSide /\ height = MinSide
    /\ downloaded = 0 /\ gui_errors = 0
    /\ stop_event = FALSE
    /\ gclock = 0
    /\ shown \in Candidates
    /\ is_downloading = FALSE
    /\ gdriver = "none"
    /\ gpc2 = "idle"

AppNext ==
    \/ GStart \/ GStop \/ GStopReturn
    \/ GCreate \/ GNavigate \/ GFirst
    \/ GLoop \/ GExtract \/ GDownload \/ GAdvance
    \/ GQuit \/ GFinish
    \/ GLoop2 \/ GBody2

AppSpec == AppInit /\ [][AppNext]_vars

\* ----------------------------------------------------------------- claims
Iterating == {"check", "extract", "put", "advance", "backoff"}
Enqueued(i) == i[2] <= seq[i[1]]
InQueue(i) ==
    \E k \in 1 .. Len(load_queue) :
        load_queue[k].src = i[1] /\ load_queue[k].seq = i[2]

\* C1: once is_active is False, no step of any process makes it True again.
C1_FlagMonotone == [][is_active = FALSE => is_active' = FALSE]_vars

\* C1 witness: the Producer lowered the flag on its exhausted budget and the
\* Orchestrator has written it again in its finally block.
C1_Witness == ~is_active /\ pend[0] = "budget" /\ opc = "grace"

\* C2: a Producer whose streak of failed iterations has reached max_errors
\* has lowered the flag, closed its session and ended, and one that ended on
\* its budget did so with a streak of exactly max_errors.
C2_BudgetExhaustion ==
    \A p \in Producers :
        /\ streak[p] >= max_errors =>
              /\ ppc[p] = "done"
              /\ pend[p] = "budget"
              /\ ~is_active
              /\ driver[p] = "closed"
        /\ pend[p] = "budget" => streak[p] = max_errors

\* C2 witness: a Producer ended on its budget.
C2_Witness == pend[0] = "budget" /\ streak[0] = max_errors /\ ppc[0] = "done"

\* C3: while a Producer is in its loop its counter equals the number of
\* failed iterations since the last successful one (so a success has reset
\* it to 0), that number is below max_errors, and the Producer has not given
\* up.
C3_BudgetReset ==
    \A p \in Producers :
        ppc[p] \in Iterating =>
            /\ consecutive_errors[p] = streak[p]
            /\ streak[p] < max_errors
            /\ pend[p] = "none"
            /\ driver[p] = "open"

\* C3 witness: the Producer put two items and advanced once, so a failed
\* advance (max_errors - 1 failures, at the bounds chosen) came before its
\* successful iteration; it has failed max_errors - 1 times since and is in
\* its backoff with the flag raised.
C3_Witness ==
    /\ seq[0] = 2 /\ cand[0] = 2
    /\ streak[0] = max_errors - 1
    /\ consecutive_errors[0] = max_errors - 1
    /\ ppc[0] = "backoff"
    /\ is_active

\* C4 as stated: a Producer that failed in INIT (opening the start locator or
\* the first candidate) lowered the flag, closed its session and is
\* TERMINATED, with nothing enqueued and no budget used.
C4_FatalInit ==
    \A p \in Producers :
        pend[p] \in {"crash", "fatal"} =>
            /\ ~is_active
            /\ driver[p] = "closed"
            /\ ppc[p] = "done"
            /\ seq[p] = 0
            /\ streak[p] = 0

C6_Original ==
    opc = "returned" =>
        \A i \in Items : Enqueued(i) => (dequeues[i] = 1 /\ i \in processed)

\* C6 amended: an item is dequeued at most once, is held by at most one
\* Consumer, and is in the queue exactly as long as it has been enqueued and
\* not dequeued.
C6_AtMostOnce ==
    /\ \A i \in Items :
          /\ dequeues[i] <= 1
          /\ InQueue(i) <=> (Enqueued(i) /\ dequeues[i] = 0)
          /\ i \in processed => dequeues[i] = 1
          /\ Cardinality({c \in Loaders :
                 cur[c].src = i[1] /\ cur[c].seq = i[2]}) <= 1
    /\ \A j, k \in 1 .. Len(load_queue) :
          load_queue[j] = load_queue[k] => j = k

\* C6 witness: two items were enqueued, each was dequeued once, by different
\* Consumers that hold them now.
C6_Witness ==
    /\ dequeues[<<0, 1>>] = 1 /\ dequeues[<<0, 2>>] = 1
    /\ cur[1] # NoItem /\ cur[2] # NoItem

\* C7 as stated: a Consumer that has exited or has been stopped holds no
\* unfinished item.
C7_Original == \A c \in Loaders : ~CAlive(c) => cur[c] = NoItem

\* C7 amended: a Consumer that exits by itself has finished its item, and a
\* Consumer is stopped by force only after the flag was lowered and the
\* grace loop has run its five checks.
C7_Drain ==
    \A c \in Loaders :
        /\ cpc[c] = "exited" => cur[c] = NoItem
        /\ cpc[c] = "killed" => (~is_active /\ grace_i = GraceChecks)

\* C7 witness: after the flag was lowered one Consumer finished its item
\* and exited, the other was stopped with its item unfinished.
C7_Witness ==
    /\ opc = "report"
    /\ cpc[1] = "exited" /\ <<0, 1>> \in processed
    /\ cpc[2] = "killed" /\ cur[2] # NoItem

\* C8 as stated: a content hash is written at most once in a run.
C8_WriteOnce == \A h \in Hashes : writes[h] <= 1

\* C9: the images stored during the run have pairwise distinct hashes, and a
\* hash that was written, however often, is that of exactly one file.
C9_DistinctHashes ==
    /\ \A f, g \in NewFiles : f.hash = g.hash => f = g
    /\ \A h \in Hashes :
          writes[h] >= 1 => Cardinality({f \in files : f.hash = h}) = 1

\* C9 witness: two items of the same content were both written, by two
\* Consumers, and one file holds that content.
C9_Witness == writes["h2"] = 2 /\ Cardinality(NewFiles) = 1

\* C10: the CountChecker lowers the flag only when the images stored beyond
\* those present at the start number at least the positive target, and once
\* they do the flag is eventually lowered and safe_download returns.
C10_Target ==
    /\ [][(is_active /\ ~is_active' /\ kpc = "run" /\ kpc' = "exited") =>
             (image_count > 0 /\ Cardinality(NewFiles) >= image_count)]_vars
    /\ (image_count > 0 /\ Cardinality(NewFiles) >= image_count)
          ~> (~is_active /\ opc = "returned")

\* C10 witness: the target is reached and the flag is lowered while no
\* Producer has given up, no signal has arrived and the Orchestrator is
\* still monitoring: the CountChecker lowered it.
C10_Witness ==
    /\ image_count > 0 /\ Cardinality(NewFiles) >= image_count
    /\ ~is_active /\ kpc = "exited"
    /\ opc = "monitor" /\ ~should_exit /\ pend[0] = "none"


\* C11: in a run with target count 0 the CountChecker never lowers the flag,
\* whatever the directory holds: a step that lowers it leaves the CountChecker
\* where it is and is the step of a Producer giving up (fatal init or
\* exhausted budget), of the interrupt handler or of the Orchestrator.
C11_Unlimited ==
    [][(image_count = 0 /\ is_active /\ ~is_active') =>
          /\ kpc' = kpc
          /\ \/ \E p \in Producers :
                   pend[p] = "none" /\ pend'[p] \in {"fatal", "budget"}
             \/ ~should_exit /\ should_exit'
             \/ opc = "monitor" /\ opc' = "grace"]_vars

\* C11 witness: with target 0 an image was stored, the CountChecker kept
\* running, and it left only after the Producer lowered the flag on its
\* exhausted budget.
C11_Witness ==
    /\ image_count = 0 /\ NewFiles # {}
    /\ ~is_active /\ pend[0] = "budget" /\ kpc = "exited"
    /\ opc = "monitor" /\ ~should_exit


\* C12: with a timeout T > 0, a pass of the monitoring loop that finds the
\* flag raised, no signal and a live process stops the run only when the clock
\* reads more than T, and then within one polling interval after T; the loop
\* never sleeps again once the clock reads more than T, so that the flag is
\* lowered by the first check after T.
C12_Timeout ==
    /\ [][(opc = "monitor" /\ opc' = "grace" /\ is_active /\ ~should_exit
             /\ AnyAlive) =>
             /\ timeout > 0
             /\ elapsed > timeout
             /\ elapsed <= timeout + PollInterval
             /\ ~is_active']_vars
    /\ [][(opc = "monitor" /\ timeout > 0 /\ elapsed > timeout) =>
             elapsed' = elapsed]_vars

\* C12 witness: with a timeout of one polling interval the check at 5 units
\* let the run go on, and the check at 10 units has stopped it: no signal, no
\* Producer that gave up, the CountChecker still running.
C12_Witness ==
    /\ timeout = LongTimeout /\ elapsed = LongTimeout + PollInterval
    /\ opc = "grace" /\ grace_i = 0 /\ ~is_active
    /\ ~should_exit /\ pend[0] = "none" /\ kpc = "run"


\* C13: once the flag is lowered, safe_download eventually returns and by
\* then no Producer and no Consumer is alive, wherever each of them stood:
\* at a full queue, at an empty queue or in its backoff.
C13_Shutdown ==
    ~is_active ~>
        /\ opc = "returned"
        /\ \A p \in Producers : ~PAlive(p)
        /\ \A c \in Loaders : ~CAlive(c)

\* C13 witness: the flag is lowered and the grace loop has run out with the
\* Producer still waiting to enqueue at a full queue.
C13_Witness ==
    /\ ~is_active /\ opc = "grace" /\ grace_i = GraceChecks
    /\ ppc[0] = "put" /\ ~CanPut(load_queue)


\* what C14 asks of a single step
C14_Step ==
    /\ (opc = "grace" /\ opc' = "force") =>
          (grace_i = GraceChecks \/ ~AnyAlive)
    /\ (opc = "grace" /\ opc' = "grace" /\ grace_i' # grace_i) =>
          (AnyAlive /\ grace_i' = grace_i + 1)
    /\ \A p \in Producers :
          /\ (ppc'[p] = "killed" /\ ppc[p] # "killed") =>
                (opc = "force" /\ PAlive(p))
          /\ ~PAlive(p) => ppc'[p] = ppc[p]
    /\ \A c \in Loaders :
          /\ (cpc'[c] = "killed" /\ cpc[c] # "killed") =>
                (opc = "force" /\ CAlive(c))
          /\ ~CAlive(c) => cpc'[c] = cpc[c]
    /\ (kpc' = "killed" /\ kpc # "killed") => (opc = "force" /\ KAlive)
    /\ ~KAlive => kpc' = kpc

\* C14: the Orchestrator leaves its monitoring loop with the flag lowered; it
\* goes on to the forced step only after five checks of the grace loop or
\* when no child is alive; a child is terminated by force only in that step
\* and only if it was alive then, a child that had exited keeps its state; and
\* after the forced step no child is alive.
C14_GracefulThenForced ==
    /\ [](opc # "monitor" => ~is_active)
    /\ [](grace_i <= GraceChecks)
    /\ [](opc \in {"report", "returned"} => ~AnyAlive)
    /\ [][C14_Step]_vars

\* C14 witness: the grace loop ran its five checks; one Consumer and the
\* CountChecker had exited by themselves, the other Consumer and the
\* Producer were terminated by force.
C14_Witness ==
    /\ opc = "report" /\ grace_i = GraceChecks
    /\ cpc[1] = "exited" /\ kpc = "exited"
    /\ cpc[2] = "killed" /\ ppc[0] = "killed"


\* C15: the queue never holds more than 10 * proc_num items, and an item is
\* added, one at a time, only to a queue that is not full: a Producer at a
\* full queue adds its item after a Consumer has removed one.
C15_QueueBound ==
    /\ [](Len(load_queue) <= QueueFactor * proc_num)
    /\ [][Len(load_queue') > Len(load_queue) =>
             /\ Len(load_queue) < QueueFactor * proc_num
             /\ Len(load_queue') = Len(load_queue) + 1]_vars

\* C15 witness: the queue was full with items 1 to 10, a Consumer took
\* item 1, and the Producer then added item 11: the queue is full again.
C15_Witness ==
    /\ Len(load_queue) = QueueFactor * proc_num
    /\ seq[0] = QueueFactor * proc_num + 1
    /\ dequeues[<<0, 1>>] = 1 /\ dequeues[<<0, 2>>] = 0


\* what C16 asks of a single step
C16_Step ==
    \A p \in Producers :
        /\ (ppc[p] = "check" /\ ~is_active /\ ppc'[p] # "check") =>
              /\ ppc'[p] \in {"done", "killed"}
              /\ ppc'[p] = "done" => (driver'[p] = "closed" /\ pend'[p] = "flag")
              /\ seq'[p] = seq[p] /\ load_queue' = load_queue
        /\ (ppc'[p] = "extract" /\ ppc[p] # "extract") =>
              (ppc[p] = "check" /\ is_active /\ ~child_exit[p])
        /\ (ppc[p] \in {"advance", "backoff"}
               /\ ppc'[p] \notin {ppc[p], "killed", "done"}) =>
              ppc'[p] \in {"check", "backoff"}

\* C16: every iteration of the Producer starts with a read of the flag: the
\* extraction is entered from that read only, with the flag read as raised;
\* after an advance and after a backoff the Producer is back at the read; and
\* a Producer that reads the flag as lowered closes its session and ends,
\* without enqueuing anything.
C16_ShutdownCheck == [][C16_Step]_vars

\* C16 witness: the Producer enqueued an item, then read the flag that the
\* CountChecker had lowered, closed its session and ended.
C16_Witness ==
    /\ pend[0] = "flag" /\ ppc[0] = "done" /\ driver[0] = "closed"
    /\ seq[0] = 1 /\ ~is_active
    /\ kpc = "exited" /\ opc = "monitor" /\ ~should_exit


\* what C17 asks of a single step of an ended Producer
C17_Step ==
    \A p \in Producers :
        ppc[p] \in {"done", "crashed"} =>
            /\ ppc'[p] = ppc[p] /\ driver'[p] = driver[p]
            /\ seq'[p] = seq[p] /\ cand'[p] = cand[p]
            /\ pend'[p] = pend[p] /\ child_exit'[p] = child_exit[p]

\* C17 as stated: a Producer process that has ended by itself, on whatever
\* path (flag read as lowered, fatal init, exhausted budget, start locator
\* that does not open), has closed its session, and an ended Producer
\* extracts, enqueues, advances and writes nothing any more.
C17_Terminated ==
    /\ [](\A p \in Producers :
             ppc[p] \in {"done", "crashed"} => driver[p] = "closed")
    /\ [][C17_Step]_vars


\* C18: in the download loop a file is written only for an image whose
\* decoded width and decoded height are both at least the minimum; for an
\* image with a decoded side below it nothing is written and nothing counted.
C18_SizeFilter ==
    [][gpc = "download" =>
          /\ (files' # files \/ downloaded' # downloaded) =>
                (shown.w >= width /\ shown.h >= height)
          /\ (gpc' = "next" /\ (shown.w < width \/ shown.h < height)) =>
                (files' = files /\ downloaded' = downloaded)]_vars

\* C18 witness: an image of a new content, declared large enough, delivered
\* and decoded, whose decoded width alone is below the minimum, went through
\* the download step and the directory holds what it held at the start.
C18_Witness ==
    /\ gpc = "next"
    /\ DeclaredFits(shown) /\ shown.ok /\ NotSkipped(shown)
    /\ shown.w < width /\ shown.h >= height
    /\ {f.name : f \in files} = initial_files /\ downloaded = 0

\* C19 as stated: the declared size has no part in the verdict: an image that
\* is delivered, decodes to at least the minimum size and has a content that
\* is neither in the SkipSet nor in the directory is saved.
C19_DeclaredAdvisory ==
    [][(/\ gpc = "download" /\ gpc' = "next"
        /\ shown.ok
        /\ shown.w >= width /\ shown.h >= height
        /\ shown.hash \notin GuiInitialFiles
        /\ ~PathExists(files, FileName(shown.hash, NoItem))) =>
          files' # files]_vars

\* C20: for an image whose content hash is the stem of a file that was in the
\* directory when the run started, the download step writes nothing and
\* counts nothing, and the files of the start stay as they were.
C20_SkipSet ==
    /\ [][(gpc = "download" /\ shown.hash \in GuiInitialFiles) =>
             (files' = files /\ downloaded' = downloaded)]_vars
    /\ [](gpc # "idle" =>
             \A n \in initial_files : [name |-> n, hash |-> Stem(n)] \in files)

\* C20 witness: the directory held h1.jpg at the start; an image of content
\* h1 that passes every other test, while no h1.png exists, went through the
\* download step and nothing was written.
C20_Witness ==
    /\ gpc = "next"
    /\ shown.hash \in GuiInitialFiles
    /\ DeclaredFits(shown) /\ shown.ok /\ DecodedFits(shown)
    /\ ~PathExists(files, FileName(shown.hash, NoItem))
    /\ downloaded = 0


C22_NoStrand ==
    (\/ \E p \in Producers : ~PAlive(p)
     \/ \E c \in Loaders : ~CAlive(c)
     \/ ~KAlive) ~> (opc = "returned")


\* what C23 asks of a single step
C23_Step ==
    /\ reported' # reported =>
          /\ opc = "report" /\ opc' = "returned"
          /\ ~AnyAlive
          /\ reported = <<>> /\ Len(reported') = 1
    /\ (opc' = "report" /\ opc # "report") => opc = "force"
    /\ (opc' = "returned" /\ opc # "returned") => reported' # reported
    /\ opc = "returned" => opc' = "returned"

\* C23: on whatever path the Orchestrator leaves its monitoring loop (target
\* reached, timeout, signal, a Producer that gave up in its init or on its
\* budget, no child alive), its next steps are the grace loop, the forced
\* step and the report, none of which can be held up; the report is made in
\* the one step that follows the forced step, and safe_download has returned
\* exactly when it has reported once.
C23_FinalReport ==
    /\ [](Len(reported) = (IF opc = "returned" THEN 1 ELSE 0))
    /\ [](opc \in {"grace", "force", "report"} => ENABLED Orchestrator)
    /\ [][C23_Step]_vars

\* C23 witness: a run without target stopped by its timeout: no signal, no
\* Producer that gave up, every child still alive at the forced step; the
\* report has been made once.
C23_Witness ==
    /\ opc = "returned" /\ Len(reported) = 1
    /\ timeout > 0 /\ elapsed > timeout /\ image_count = 0
    /\ ~should_exit /\ pend[0] = "none"
    /\ ppc[0] = "killed" /\ kpc = "killed"
    /\ \A c \in Loaders : cpc[c] = "killed"


\* C24 as stated: the count of the final report is the number of files the
\* directory holds at the end beyond those it held at the start, whatever
\* skip_files the caller passed, and it is not negative.
C24_FinalCount ==
    \A k \in 1 .. Len(reported) :
        reported[k] = RunCount /\ reported[k] >= 0


\* what C25 asks of a single step
C25_Step ==
    /\ (~should_exit /\ should_exit') =>
          /\ ~is_active'
          /\ opc' = opc /\ grace_i' = grace_i /\ reported' = reported
          /\ ppc' = ppc /\ cpc' = cpc /\ kpc' = kpc
    /\ (should_exit /\ opc = "monitor") =>
          (elapsed' = elapsed /\ opc' \in {"monitor", "grace"})
    /\ (should_exit /\ opc' # opc) =>
          \/ opc = "monitor" /\ opc' = "grace"
          \/ opc = "grace" /\ opc' = "force"
                /\ (grace_i = GraceChecks \/ ~AnyAlive)
          \/ opc = "force" /\ opc' = "report"
          \/ opc = "report" /\ opc' = "returned" /\ Len(reported') = 1

\* C25: the signal handler lowers the flag and changes nothing else but
\* should_exit, wherever the Orchestrator and the children stand; with
\* should_exit set the monitoring loop does not sleep again; and the
\* Orchestrator then goes through the grace loop, the forced step and the
\* report and returns, with no child alive, as on every other path.
C25_Interrupt ==
    /\ [](should_exit => ~is_active)
    /\ [][C25_Step]_vars
    /\ should_exit ~>
          (opc = "returned" /\ Len(reported) = 1 /\ ~AnyAlive)

\* C25 witness: the Producer had enqueued one item when the signal came
\* (nothing was stored, so the target was not reached, and the Producer did
\* not give up: it read the lowered flag); safe_download has reported and
\* returned.
C25_Witness ==
    /\ should_exit /\ opc = "returned" /\ Len(reported) = 1
    /\ RunCount = 0 /\ pend[0] = "flag" /\ seq[0] = 1


\* C26: the items of one Producer wait in the queue in the order in which it
\* enqueued them, each of them enqueued after every item of that Producer
\* that was taken; a get takes the head of the queue and hands it to one
\* Consumer; so an item is taken only when every earlier item of its
\* Producer has been taken.
C26_Fifo ==
    /\ [](\A j, k \in 1 .. Len(load_queue) :
             (j < k /\ load_queue[j].src = load_queue[k].src) =>
                 load_queue[j].seq < load_queue[k].seq)
    /\ [](\A i, j \in Items :
             (i[1] = j[1] /\ j[2] < i[2] /\ dequeues[i] >= 1) =>
                 dequeues[j] >= 1)
    /\ [][Len(load_queue') < Len(load_queue) =>
             /\ load_queue' = Tail(load_queue)
             /\ \E c \in Loaders :
                   cur[c] = NoItem /\ cur'[c] = Head(load_queue)]_vars

\* C26 witness: of the items that waited in the queue, a Consumer took the
\* first and finished it, the same Consumer then took the second, and the
\* later ones still wait, the third at the head.
C26_Witness ==
    /\ prefill > 0
    /\ <<0, 1>> \in processed
    /\ cur[1].seq = 2 /\ cur[2] = NoItem
    /\ Len(load_queue) >= 2 /\ Head(load_queue).seq = 3


\* C27: skip_files holds the stems of the files the directory held at the
\* start and no step changes it; the step that stores an image adds the hash
\* to the written set of the Consumer that stored it and to nothing else.
C27_Frozen ==
    /\ [](skip_files = {Stem(n) : n \in initial_files})
    /\ [][skip_files' = skip_files /\ initial_files' = initial_files]_vars
    /\ [][\A c \in Loaders :
            (cpc[c] = "write" /\ cpc'[c] = "get") =>
                /\ written'[c] = written[c] \cup {chash[c]}
                /\ \A d \in Loaders \ {c} : written'[d] = written[d]]_vars

\* C27 witness: a Consumer stored an image of a content the directory did
\* not hold; the hash is in its written set and not in skip_files.
C27_Witness ==
    /\ writes["h2"] = 1
    /\ "h2" \in written[1] /\ "h2" \notin written[2]
    /\ "h2" \notin skip_files /\ skip_files = {"h1"}
    /\ \E f \in files : f.hash = "h2"


\* C28: in a run with timeout 0, whatever the clock reads, a pass of the
\* monitoring loop that finds the flag raised stays in the loop and leaves
\* the flag raised: the Orchestrator leaves the loop only when the flag was
\* lowered by another process or by the signal handler, or when no child is
\* alive.
C28_NoTimeout ==
    /\ [][(timeout = 0 /\ opc = "monitor" /\ is_active) =>
             opc' = "monitor"]_vars
    /\ [][(timeout = 0 /\ opc = "monitor" /\ opc' = "grace") =>
             (should_exit \/ ~is_active \/ ~AnyAlive)]_vars
    /\ [][(timeout = 0 /\ is_active /\ ~is_active') =>
             /\ opc' = opc
             /\ \/ \E p \in Producers : pend'[p] \in {"fatal", "budget"}
                \/ should_exit'
                \/ kpc' = "exited"]_vars

\* C28 witness: without timeout the monitoring loop has slept twice, the
\* clock reads ten units, the flag is raised and the Producer goes on
\* enqueuing.
C28_Witness ==
    /\ timeout = 0 /\ elapsed = 2 * PollInterval
    /\ opc = "monitor" /\ is_active /\ ~should_exit
    /\ ppc[0] = "advance" /\ seq[0] = MaxItems


\* C29 as stated: an iteration of the download loop that extracted size and
\* link and advanced to the next image without an exception leaves the
\* counter of consecutive errors at 0, whether it saved an image or not.
C29_GuiReset ==
    [][(gpc = "next" /\ gpc' = "loop" /\ gui_errors' # gui_errors + 1) =>
          gui_errors' = 0]_vars


\* C30 as stated: a Producer enqueues a candidate at most once: no two
\* WorkItems of one Producer, waiting in the queue or held by a Consumer,
\* are of the same candidate, also when the advance failed after the enqueue
\* and the iteration was retried.
C30_NoDuplicate ==
    LET held == ({load_queue[k] : k \in 1 .. Len(load_queue)}
                    \cup {cur[c] : c \in Loaders}) \ {NoItem}
    IN  \A a, b \in held :
            (a.src = b.src /\ a.cand = b.cand) => a.seq = b.seq


\* what C31 asks of a single step taken with the flag lowered
C31_Step ==
    ~is_active =>
        /\ ~is_active'
        /\ \A p \in Producers :
              /\ seq'[p] # seq[p] =>
                    /\ seq'[p] = seq[p] + 1
                    /\ ppc[p] = "put" /\ ppc'[p] = "advance"
              /\ ppc[p] \notin {"extract", "put"} =>
                    ppc'[p] \notin {"extract", "put"}
              /\ ppc[p] = "put" => ppc'[p] # "extract"

\* C31: once the flag is lowered it stays lowered, a Producer enqueues only
\* by completing the put of the iteration it is in, and a Producer that is
\* past that put (or was not in an iteration) never comes to an extraction
\* or a put again: so each Producer enqueues at most one item after the
\* flag is lowered.
C31_BoundedProduction == [][C31_Step]_vars

\* C31 witness: both Consumers left at the empty queue, so the flag was
\* lowered by then; the Producer enqueued its first item afterwards (it
\* waits in the queue, never taken), read the flag and ended.
C31_Witness ==
    /\ \A c \in Loaders : cpc[c] = "exited"
    /\ seq[0] = 1 /\ Len(load_queue) = 1 /\ dequeues[<<0, 1>>] = 0
    /\ ppc[0] = "done" /\ pend[0] = "flag"


\* what C32 asks of a single step: the counter of a Producer changes by +1
\* in a failed iteration that leads to the backoff, or to 0 in a successful
\* advance; the counter of a process that ends is gone with it
C32_Step ==
    \A p \in Producers :
        /\ consecutive_errors'[p] # consecutive_errors[p] =>
              \/ /\ consecutive_errors'[p] = consecutive_errors[p] + 1
                 /\ ppc[p] \in {"extract", "advance"}
                 /\ ppc'[p] = "backoff"
              \/ /\ consecutive_errors'[p] = 0
                 /\ \/ ppc[p] = "advance" /\ ppc'[p] = "check"
                    \/ ppc'[p] \in {"done", "killed"}
        /\ (ppc[p] = "advance" /\ ppc'[p] = "check") =>
              consecutive_errors'[p] = 0
        /\ (ppc[p] \in {"extract", "advance"} /\ ppc'[p] = "backoff") =>
              consecutive_errors'[p] = consecutive_errors[p] + 1

\* C32: the counter of consecutive errors of a Producer is never negative
\* and never above max_errors, as is the number of failed iterations since
\* the last successful one; it is below max_errors whenever the Producer
\* stands at the read of the flag, at an extraction or in its backoff; and
\* it changes only by +1 in a failed iteration and to 0 in a successful one.
C32_BudgetBounds ==
    /\ [](\A p \in Producers :
             /\ consecutive_errors[p] >= 0
             /\ consecutive_errors[p] <= max_errors
             /\ streak[p] >= 0 /\ streak[p] <= max_errors
             /\ ppc[p] \in {"check", "extract", "put", "backoff"} =>
                   consecutive_errors[p] < max_errors)
    /\ [][C32_Step]_vars

\* C32 witness: after a successful iteration the Producer failed
\* max_errors - 1 times and begins the next extraction with a counter one
\* below max_errors.
C32_Witness ==
    /\ ppc[0] = "extract"
    /\ consecutive_errors[0] = max_errors - 1
    /\ seq[0] = 1 /\ cand[0] = 2


\* C33: the Orchestrator leaves its monitoring loop only in a pass that
\* finds the flag lowered, or a timeout > 0 exceeded, or no child alive;
\* and as long as the flag is raised it is in that loop and no child has
\* been terminated by force.
C33_NoPrematureShutdown ==
    /\ [][(opc = "monitor" /\ opc' # "monitor") =>
             \/ ~is_active
             \/ timeout > 0 /\ elapsed > timeout
             \/ /\ \A p \in Producers : ~PAlive(p)
                /\ \A c \in Loaders : ~CAlive(c)
                /\ ~KAlive]_vars
    /\ [](is_active =>
             /\ opc = "monitor"
             /\ \A p \in Producers : ppc[p] # "killed"
             /\ \A c \in Loaders : cpc[c] # "killed"
             /\ kpc # "killed")

\* C33 witness: the Producer has died at its start; the monitoring loop has
\* slept once since the run began and goes on, the flag raised, the timeout
\* not exceeded at the pass before the sleep, every other child alive.
C33_Witness ==
    /\ opc = "monitor" /\ is_active /\ ~should_exit
    /\ timeout = TimeoutValue /\ elapsed = PollInterval
    /\ ppc[0] = "crashed"
    /\ kpc = "run" /\ \A c \in Loaders : cpc[c] = "get"


C35_SingleWorker ==
    ~(/\ gpc \in {"loop", "extract", "download", "next"}
      /\ gpc2 \in {"loop", "body"})


\* what C36 asks of a single step
C36_Step ==
    /\ (gpc = "loop" /\ count > 0 /\ downloaded >= count /\ gpc' # gpc) =>
          gpc' = "ended"
    /\ downloaded' # downloaded =>
          /\ downloaded' = downloaded + 1
          /\ gpc = "download"
          /\ count > 0 => downloaded < count
          /\ Cardinality(files') = Cardinality(files) + 1

\* C36: with a target count K > 0 the loop never counts more than K saved
\* images and has saved as many files as it counts; it counts one image at
\* a time, only below the target; and the pass that begins with K images
\* counted leaves the loop.
C36_NoOvershoot ==
    /\ [](count > 0 => downloaded <= count)
    /\ [](Cardinality(files) = Cardinality(initial_files) + downloaded)
    /\ [][C36_Step]_vars

\* C36 witness: the loop has ended at the head of the pass that followed
\* the save of the K-th image: no stop was asked for and the error budget
\* was not used up.
C36_Witness ==
    /\ count = TargetCount /\ downloaded = count
    /\ gpc = "ended"
    /\ ~stop_event /\ gui_errors < max_errors


\* C37 as stated: when download_images returns, on whatever path, a driver
\* that it created has been quit and is_downloading is false.
C37_Cleanup ==
    [][(gpc' = "returned" /\ gpc # "returned") =>
          (gdriver' # "open" /\ ~is_downloading')]_vars

====
